---- MODULE Spec2Model ----
(***************************************************************************)
(* The page server of the application assistant: the per-chat SQLite       *)
(* handle cache (server/db.js: getDb), the page repository                 *)
(* (server/index.js: upsertPage and the /api/pages routes) and the         *)
(* bounded fetch pool (runWithConcurrency) behind /api/crawl and           *)
(* /api/preview.                                                           *)
(*                                                                         *)
(* A request is a process; its steps are the segments of its async handler *)
(* between two awaits.  Strings that the code inspects character by        *)
(* character (chat ids, page text) are sequences of one-character strings. *)
(* The timestamp columns of a page row are left out.                       *)
(***************************************************************************)
EXTENDS Integers, Sequences, FiniteSets, TLC

\* ------------------------------------------------------------------ bounds
MaxReqs == 2        \* requests received in one behaviour
MaxBatch == 9       \* longest URL list of a batch in SpecPool
MaxIdLen == 2       \* longest chat id of SpecIds
MaxChats == 3       \* highest conversation id of SpecChat

\* ------------------------------------------------------- program constants
MAX_URLS == 1000
FETCH_CONCURRENCY == 8
MaxLimit == 200     \* Math.min(..., 200) of the list and the search
CacheTtl == 5       \* minutes a job search stays cached

\* ------------------------------------------------------------------ values
Null == "null"              \* JS null / SQL NULL in a text column
NullText == <<Null>>        \* null where the value is otherwise a text
Undefined == <<"undefined">> \* a chatId that the request does not carry
NoStatus == 0               \* null status code
NoId == 0                   \* null in an integer column or field
NoHash == -1                \* SQL NULL in content_hash
NoHandle == 0
NaN == -1                   \* Number(x) of a non-numeric path segment

Min(a, b) == IF a < b THEN a ELSE b

SetMax(S) == IF S = {} THEN 0 ELSE CHOOSE m \in S : \A x \in S : x <= m

\* ------------------------------------------------- db.js: sanitizeChatId
Default == <<"d", "e", "f", "a", "u", "l", "t">>

SafeChars ==
    { "a", "b", "c", "d", "e", "f", "g", "h", "i", "j", "k", "l", "m",
      "n", "o", "p", "q", "r", "s", "t", "u", "v", "w", "x", "y", "z",
      "A", "B", "C", "D", "E", "F", "G", "H", "I", "J", "K", "L", "M",
      "N", "O", "P", "Q", "R", "S", "T", "U", "V", "W", "X", "Y", "Z",
      "0", "1", "2", "3", "4", "5", "6", "7", "8", "9", "_", "-" }

IsSafeChar(c) == c \in SafeChars

\* Mutant of sanitizeChatId: the stripped id is returned as it is, without
\* line 87.
sanitizeChatIdStripOnly(chatId) ==
    LET raw == IF chatId = Undefined \/ chatId = <<>> THEN Default ELSE chatId
    IN  SelectSeq(raw, IsSafeChar)

\* String(chatId || 'default').replace(/[^a-zA-Z0-9_-]/g, ''), then the
\* fallback for an empty result.
sanitizeChatId(chatId) ==
    LET raw == IF chatId = Undefined \/ chatId = <<>> THEN Default ELSE chatId
        safe == SelectSeq(raw, IsSafeChar)
    IN  IF Len(safe) > 0 THEN safe ELSE Default

\* The chat ids requests carry: two that differ only in a stripped
\* character, and a request without one.
RawIds == { <<"a">>, <<"a", "/">>, Undefined }

SafeIds == { sanitizeChatId(c) : c \in RawIds }

\* The chat ids of SpecIds: every string of up to MaxIdLen characters over
\* letters, digits, the two safe signs and characters a path could abuse,
\* and a request without a chat id.
IdAlphabet == { "a", "Z", "7", "_", "-", "/", ".", " " }

AnyIds == { Undefined } \cup UNION { [1..n -> IdAlphabet] : n \in 0..MaxIdLen }

AnySafeIds == { sanitizeChatId(c) : c \in AnyIds }

\* --------------------------------------------------- index.js: hashContent
Chars == <<" ", "x", "y", "z", "X">>

CharCode(c) == CHOOSE i \in 1..Len(Chars) : Chars[i] = c

HashMod == 2 ^ 16

RECURSIVE HashFrom(_, _)
HashFrom(h, s) ==
    IF s = <<>> THEN h
    ELSE HashFrom((h * 31 + CharCode(Head(s))) % HashMod, Tail(s))

\* crypto.createHash('sha256').update(content).digest('hex'): a digest of
\* the characters of content, here a 16-bit polynomial digest.
hashContent(content) == HashFrom(7, content)

\* ------------------------------------- index.js: sanitizeText and extract*
\* A fetched body is a sequence of tokens: an opening tag, a closing tag or
\* one character of text.
Open(name) == [t |-> "open", v |-> name]

Close(name) == [t |-> "close", v |-> name]

Ch(c) == [t |-> "ch", v |-> c]

RECURSIVE Collapse(_)
\* text.replace(/\s+/g, ' '): every run of whitespace becomes one space.
Collapse(s) ==
    IF Len(s) < 2 THEN s
    ELSE IF s[1] = " " /\ s[2] = " " THEN Collapse(Tail(s))
         ELSE <<s[1]>> \o Collapse(Tail(s))

RECURSIVE TrimLeft(_)
TrimLeft(s) == IF s # <<>> /\ Head(s) = " " THEN TrimLeft(Tail(s)) ELSE s

RECURSIVE TrimRight(_)
TrimRight(s) ==
    IF s # <<>> /\ s[Len(s)] = " " THEN TrimRight(SubSeq(s, 1, Len(s) - 1)) ELSE s

\* String.prototype.trim
Trim(s) == TrimRight(TrimLeft(s))

sanitizeText(text) == Trim(Collapse(text))

\* The position of the first token tok at or after position from, 0 if none.
IndexFrom(html, tok, from) ==
    IF \E i \in from..Len(html) : html[i] = tok
    THEN CHOOSE i \in from..Len(html) :
             html[i] = tok /\ \A j \in from..(i - 1) : html[j] # tok
    ELSE 0

RECURSIVE StripBlocks(_, _)
\* html.replace(/<name[\s\S]*?<\/name>/gi, ' '): each block from an opening
\* tag to the nearest closing tag after it becomes one space.
StripBlocks(html, name) ==
    LET i == IndexFrom(html, Open(name), 1)
        j == IF i = 0 THEN 0 ELSE IndexFrom(html, Close(name), i + 1)
    IN  IF i = 0 \/ j = 0 THEN html
        ELSE SubSeq(html, 1, i - 1) \o <<Ch(" ")>>
                 \o StripBlocks(SubSeq(html, j + 1, Len(html)), name)

RECURSIVE StripTags(_)
\* replace(/<[^>]+>/g, ' '): every remaining tag becomes one space.
StripTags(html) ==
    IF html = <<>> THEN <<>>
    ELSE <<(IF Head(html).t = "ch" THEN Head(html).v ELSE " ")>>
             \o StripTags(Tail(html))

extractText(html) ==
    sanitizeText(StripTags(StripBlocks(StripBlocks(html, "script"), "style")))

\* The text between the first <title> and the nearest </title> after it,
\* whitespace-normalised; null without such a pair.
extractTitle(html) ==
    LET i == IndexFrom(html, Open("title"), 1)
        j == IF i = 0 THEN 0 ELSE IndexFrom(html, Close("title"), i + 1)
    IN  IF i = 0 \/ j = 0 THEN NullText
        ELSE sanitizeText(StripTags(SubSeq(html, i + 1, j - 1)))

\* ------------------------------------------------------- the web (fetch)
UA == "http://a.test"
UBroken == "http://b.test-broken"
URedirect == "http://r.test"
UEmpty == "http://e.test"
UHang == "http://h.test-silent"     \* a server that never completes its response
UImage == "http://i.test/logo.png"  \* a server that answers with an image

PageA ==
    << Open("title"), Ch("x"), Close("title"),
       Open("p"), Ch("y"), Ch(" "), Ch(" "), Ch("z"), Close("p") >>

PageEmpty == << Open("script"), Ch("x"), Close("script"), Ch(" ") >>

\* The bytes of an image as response.text() decodes them: characters, no tag.
PageBinary == << Ch("z"), Ch("X") >>

NoPage == [ok |-> FALSE, url |-> Null, status |-> 0, html |-> <<>>]

\* What fetch(url, {redirect: 'follow'}) followed by response.text() can
\* give: a response with its final url, or an exception (ok = FALSE).  The
\* content type of a response is never looked at.  For the silent server
\* the exception is the runtime's own; that the promise may also stay
\* pending is the step FetchHangs.
Fetch(url) ==
    CASE url = UA -> { [ok |-> TRUE, url |-> UA, status |-> 200, html |-> PageA] }
      [] url = URedirect ->
             { [ok |-> TRUE, url |-> UA, status |-> 200, html |-> PageA] }
      [] url = UEmpty ->
             { [ok |-> TRUE, url |-> UEmpty, status |-> 200, html |-> PageEmpty] }
      [] url = UImage ->
             { [ok |-> TRUE, url |-> UImage, status |-> 200, html |-> PageBinary] }
      [] url = UHang -> { NoPage }
      [] OTHER -> { NoPage }

Urls == { UA, UBroken, URedirect, UEmpty, UHang, UImage }

\* For each url, what an iterator has in hand once fetch and
\* response.text() have settled: the response with extractTitle(html) and
\* extractText(html).
Settled ==
    [url \in Urls |->
        { [response |-> response, title |-> extractTitle(response.html),
           content |-> extractText(response.html)] : response \in Fetch(url) }]

\* ------------------------------------------------------ express: routing
\* A path is the sequence of its segments.  Routes are tried in the order
\* index.js registers them; GET /api/pages/:id stands before
\* GET /api/pages/search and matches every three-segment path under
\* /api/pages, so the search handler is never chosen.
Route(method, path) ==
    CASE method = "GET" /\ path = <<"api", "pages">> -> "list"
      [] method = "GET" /\ Len(path) = 3 /\ SubSeq(path, 1, 2) = <<"api", "pages">>
             -> "getById"
      [] method = "POST" /\ path = <<"api", "pages">> -> "save"
      [] method = "POST" /\ path = <<"api", "crawl">> -> "crawl"
      [] method = "POST" /\ path = <<"api", "preview">> -> "preview"
      [] OTHER -> "none"

\* Number(req.params.id) for the path segments the model sends.
ToNumber(seg) ==
    CASE seg = "1" -> 1
      [] seg = "2" -> 2
      [] OTHER -> NaN

\* A JS number that is an integer, and NaN.
Num(n) == [nan |-> FALSE, val |-> n]

NotANumber == [nan |-> TRUE, val |-> 0]

DigitChars == { "0", "1", "2", "3", "4", "5", "6", "7", "8", "9" }

DigitValue(c) == CHOOSE d \in 0..9 : ToString(d) = c

\* The value of the digits of s from position i on, up to the first
\* character that is no digit.
RECURSIVE DigitPrefix(_, _, _)
DigitPrefix(s, i, acc) ==
    IF i > Len(s) \/ s[i] \notin DigitChars THEN acc
    ELSE DigitPrefix(s, i + 1, acc * 10 + DigitValue(s[i]))

\* parseInt(s, 10): an optional sign, then the longest run of digits; NaN
\* when no digit follows.  What comes after the digits is ignored.
parseInt(s) ==
    LET signed == Len(s) > 0 /\ s[1] \in {"-", "+"}
        start == IF signed THEN 2 ELSE 1
    IN  IF start > Len(s) \/ s[start] \notin DigitChars THEN NotANumber
        ELSE Num((IF signed /\ s[1] = "-" THEN -1 ELSE 1) * DigitPrefix(s, start, 0))

\* Math.min and Math.max, which give NaN when an argument is NaN.
MathMin(a, b) ==
    IF a.nan \/ b.nan THEN NotANumber ELSE IF a.val < b.val THEN a ELSE b

MathMax(a, b) ==
    IF a.nan \/ b.nan THEN NotANumber ELSE IF a.val > b.val THEN a ELSE b

\* ------------------------------------------------------------------- state
VARIABLES
    req,        \* the requests: position in the handler, locals, response
    dbCache,    \* db.js dbCache: sanitized chat id -> cached handle
    handles,    \* every handle openDatabase made: its file, its initSchema
    disk,       \* server/data/chat-<id>.db: the stores on disk
    ui,         \* App.tsx: the state of the component and its calls in flight
    jobs        \* the job search of the server: its cache, clock and calls

vars == <<req, dbCache, handles, disk, ui, jobs>>

Reqs == 1..MaxReqs

NoWriter == <<"none">>

NoStore == [exists |-> FALSE, schema |-> "none", rows |-> {}]

\* A store file written under the first schema.sql of the repository
\* (id, url, content, created_at, updated_at), holding one page.
LegacyStore ==
    [exists |-> TRUE, schema |-> "legacy",
     rows |-> { [id |-> 1, url |-> UA, content |-> <<"x">>, by |-> NoWriter] }]

NoResp == [status |-> 0, items |-> <<>>, id |-> NoId, contentHash |-> NoHash]

NoBody == [none |-> TRUE]

IdleReq ==
    [pc |-> "idle", method |-> "", path |-> <<>>, chatId |-> Undefined,
     body |-> NoBody, db |-> NoHandle, resp |-> NoResp, error |-> "none",
     nextIndex |-> 0, results |-> <<>>, workers |-> {}, fetches |-> 0]

\* The state of App when it is mounted.  Of a call in flight the component
\* keeps what its handler closed over.
NoCall == [kind |-> "none"]

InitUi ==
    [conversations |-> <<1>>, activeConversationId |-> 1,
     crawlBusy |-> FALSE, crawlCall |-> NoCall, crawlResults |-> <<>>,
     crawlError |-> "", crawlChat |-> 0, filterError |-> "",
     filterInclude |-> <<>>, filterExclude |-> <<>>, filterBusy |-> FALSE,
     filterCall |-> NoCall, filterPreviewItems |-> <<>>, filterPreviewTotal |-> 0,
     searchBusy |-> FALSE, searchCall |-> NoCall, searchResults |-> <<>>,
     jobResults |-> <<>>, searchError |-> {}]

\* The job search before its first call: nothing is cached.
InitJobs == [cache |-> {}]

Init ==
    /\ req = [r \in Reqs |-> IdleReq]
    /\ dbCache = [s \in SafeIds |-> NoHandle]
    /\ handles = <<>>
    /\ ui = InitUi
    /\ jobs = InitJobs
    /\ disk \in { [s \in SafeIds |-> NoStore],
                  [s \in SafeIds |-> IF s = <<"a">> THEN LegacyStore ELSE NoStore] }

\* The state of SpecIds: no handle is cached, and the files of all the ids
\* a request could name are absent, but for the one of the first schema.
InitIds ==
    /\ req = [r \in Reqs |-> IdleReq]
    /\ dbCache = [s \in AnySafeIds |-> NoHandle]
    /\ handles = <<>>
    /\ ui = InitUi
    /\ jobs = InitJobs
    /\ disk \in { [s \in AnySafeIds |-> NoStore],
                  [s \in AnySafeIds |-> IF s = <<"a">> THEN LegacyStore ELSE NoStore] }

\* A store of the current schema that holds one page more than MaxLimit,
\* as MaxLimit + 1 saves under chat id "a" leave it.
FullStore ==
    LET hash == hashContent(<<"x">>)
    IN  [exists |-> TRUE, schema |-> "current",
         rows |-> { [id |-> i, url |-> "http://a.test/" \o ToString(i),
                     title |-> NullText, content |-> <<"x">>, statusCode |-> NoStatus,
                     contentHash |-> hash, by |-> <<"a">>] : i \in 1..(MaxLimit + 1) }]

\* The state of SpecList: no handle is cached, and the store of chat "a"
\* is FullStore.
InitList ==
    /\ req = [r \in Reqs |-> IdleReq]
    /\ dbCache = [s \in SafeIds |-> NoHandle]
    /\ handles = <<>>
    /\ ui = InitUi
    /\ jobs = InitJobs
    /\ disk = [s \in SafeIds |-> IF s = <<"a">> THEN FullStore ELSE NoStore]

\* Mutant of StoreOf: one file for all chats, as the first db.js had.
StoreOfShared(r) == Default

\* The store a request's handle reads and writes.
StoreOf(r) == handles[req[r].db].file

RouteOf(r) == Route(req[r].method, req[r].path)

\* res.status(code).json(...) with what the model keeps of the JSON.
Respond(rq, code, items, id, hash) ==
    [rq EXCEPT !.pc = "done",
               !.resp = [status |-> code, items |-> items, id |-> id,
                         contentHash |-> hash]]

\* ---------------------------------------------------- index.js: upsertPage
\* Mutant of UpsertRows: a plain INSERT, without the conflict clause and
\* without the UNIQUE constraint.
UpsertRowsInsert(rows, page, by) ==
    rows \cup
    { [id |-> SetMax({ row.id : row \in rows }) + 1, url |-> page.url,
       title |-> page.title, content |-> page.content,
       statusCode |-> page.statusCode,
       contentHash |-> hashContent(page.content), by |-> by] }

\* Mutant of UpsertRows: INSERT OR REPLACE, which deletes the row in
\* conflict and inserts a new one under the next rowid.
UpsertRowsReplace(rows, page, by) ==
    { row \in rows : row.url # page.url } \cup
    { [id |-> SetMax({ row.id : row \in rows }) + 1, url |-> page.url,
       title |-> page.title, content |-> page.content,
       statusCode |-> page.statusCode,
       contentHash |-> hashContent(page.content), by |-> by] }

\* Mutant of UpsertRows: the conflict clause sets content and content_hash
\* only, so title and status_code stay those of an earlier call.
UpsertRowsPartial(rows, page, by) ==
    LET hash == hashContent(page.content)
    IN  IF \E row \in rows : row.url = page.url
        THEN { IF row.url = page.url
               THEN [row EXCEPT !.content = page.content, !.contentHash = hash,
                                !.by = by]
               ELSE row : row \in rows }
        ELSE rows \cup
             { [id |-> SetMax({ row.id : row \in rows }) + 1, url |-> page.url,
                title |-> page.title, content |-> page.content,
                statusCode |-> page.statusCode, contentHash |-> hash,
                by |-> by] }

\* INSERT ... ON CONFLICT(url) DO UPDATE: the row with this url is updated
\* in place, or a row with the next rowid is inserted.  by records the chat
\* id of the request that wrote the row (not a column).
UpsertRows(rows, page, by) ==
    LET hash == hashContent(page.content)
    IN  IF \E row \in rows : row.url = page.url
        THEN { IF row.url = page.url
               THEN [row EXCEPT !.title = page.title, !.content = page.content,
                                !.statusCode = page.statusCode,
                                !.contentHash = hash, !.by = by]
               ELSE row : row \in rows }
        ELSE rows \cup
             { [id |-> SetMax({ row.id : row \in rows }) + 1, url |-> page.url,
                title |-> page.title, content |-> page.content,
                statusCode |-> page.statusCode, contentHash |-> hash,
                by |-> by] }

\* SELECT id FROM pages WHERE url = ?, then row?.id ?? null.
SelectId(rows, url) ==
    IF \E row \in rows : row.url = url
    THEN (CHOOSE row \in rows : row.url = url).id
    ELSE NoId

\* -------------------------------------------- index.js: runWithConcurrency
Hole == [status |-> "hole"]          \* a slot of new Array(n) never assigned

NullItem == [status |-> "null"]      \* an iterator that returned null

\* Mutant of Truthy: the filter keeps the successes only.
TruthyOk(o) == o.status \in {"ok", "item"}

Truthy(o) == o.status \notin {"hole", "null"}

NoArg == [url |-> "", title |-> NullText, content |-> <<>>, statusCode |-> NoStatus]

\* A worker inside iterator(items[current]): current is its 0-based index,
\* pc the await the iterator stands at, page what it fetched.
InFlight(current) == [current |-> current, pc |-> "fetch", page |-> NoArg]

\* Mutant of WorkerCount: one worker for every item.
WorkerCountAll(n, limit) == n

\* How many workers Array.from creates (line 41).
WorkerCount(n, limit) == Min(limit, n)

\* Lines 38-50 up to the first await of every worker: each worker in turn
\* reads nextIndex, advances it and calls the iterator.
PoolStart(rq, items, limit) ==
    LET n == WorkerCount(Len(items), limit)
    IN  [rq EXCEPT !.pc = "pool",
                   !.results = [i \in 1..Len(items) |-> Hole],
                   !.nextIndex = n,
                   !.workers = { InFlight(i) : i \in 0..(n - 1) },
                   !.fetches = n]

\* Mutant of WorkerLoop: a 'failed' outcome ends the run, as an iterator
\* without its catch would.
WorkerLoopAbort(rq, w, outcome) ==
    LET n == Len(rq.body.urls.elems)
        stored == [rq EXCEPT !.results[w.current + 1] = outcome]
    IN  IF outcome.status = "failed"
        THEN [stored EXCEPT !.workers = {}, !.nextIndex = n]
        ELSE IF rq.nextIndex >= n
        THEN [stored EXCEPT !.workers = @ \ {w}]
        ELSE [stored EXCEPT !.workers = (@ \ {w}) \cup {InFlight(rq.nextIndex)},
                            !.nextIndex = @ + 1,
                            !.fetches = @ + 1]

\* Mutant of WorkerLoop: a worker handles one item and leaves, as a pool
\* without the while loop would.
WorkerLoopOnce(rq, w, outcome) ==
    [rq EXCEPT !.results[w.current + 1] = outcome, !.workers = @ \ {w}]

\* Mutant of WorkerLoop: the worker takes the index handed out last once
\* more, as a loop that reads nextIndex before the await and advances it
\* after would.
WorkerLoopAgain(rq, w, outcome) ==
    LET n == Len(rq.body.urls.elems)
        stored == [rq EXCEPT !.results[w.current + 1] = outcome]
    IN  IF rq.nextIndex >= n
        THEN [stored EXCEPT !.workers = @ \ {w}]
        ELSE [stored EXCEPT !.workers = (@ \ {w}) \cup {InFlight(rq.nextIndex - 1)},
                            !.nextIndex = @ + 1,
                            !.fetches = @ + 1]

\* Mutant of WorkerLoop: the result is pushed behind the results so far, as
\* results.push(await iterator(...)) would.
WorkerLoopPush(rq, w, outcome) ==
    LET n == Len(rq.body.urls.elems)
        free == { i \in 1..n : rq.results[i] = Hole }
        first == CHOOSE i \in free : \A j \in free : i <= j
        stored == [rq EXCEPT !.results[first] = outcome]
    IN  IF rq.nextIndex >= n
        THEN [stored EXCEPT !.workers = @ \ {w}]
        ELSE [stored EXCEPT !.workers = (@ \ {w}) \cup {InFlight(rq.nextIndex)},
                            !.nextIndex = @ + 1,
                            !.fetches = @ + 1]

\* Lines 42-48 after the iterator of worker w has returned outcome: the
\* result is stored at the worker's index, and the worker takes the next
\* index or leaves the loop when none is left.
WorkerLoop(rq, w, outcome) ==
    LET n == Len(rq.body.urls.elems)
        stored == [rq EXCEPT !.results[w.current + 1] = outcome]
    IN  IF rq.nextIndex >= n
        THEN [stored EXCEPT !.workers = @ \ {w}]
        ELSE [stored EXCEPT !.workers = (@ \ {w}) \cup {InFlight(rq.nextIndex)},
                            !.nextIndex = @ + 1,
                            !.fetches = @ + 1]

\* The worker of a request moves from w to w2 inside its iterator.
WorkerStep(rq, w, w2) == [rq EXCEPT !.workers = (@ \ {w}) \cup {w2}]

ItemOf(rq, w) == rq.body.urls.elems[w.current + 1]

\* ----------------------------------------- index.js: the handlers' entries
DefaultLimit == <<"5", "0">>

DefaultOffset == <<"0">>

\* req.query[name] || fallback: a parameter that is absent or empty is
\* replaced.
QueryOr(rq, name, fallback) ==
    IF name \notin DOMAIN rq.body THEN fallback
    ELSE IF rq.body[name] \in {Undefined, <<>>} THEN fallback
    ELSE rq.body[name]

\* Math.min(parseInt(req.query.limit || '50', 10), 200)
LimitOf(rq) == MathMin(parseInt(QueryOr(rq, "limit", DefaultLimit)), Num(MaxLimit))

\* Math.max(parseInt(req.query.offset || '0', 10), 0)
OffsetOf(rq) == MathMax(parseInt(QueryOr(rq, "offset", DefaultOffset)), Num(0))

\* GET /api/pages after getDb: db.all is issued.
ListPages(rq) == [rq EXCEPT !.pc = "all"]

\* GET /api/pages/:id after getDb, which also answers GET /api/pages/search:
\* 400 for an id that is no number, otherwise db.get is issued.
GetPage(rq) ==
    IF ToNumber(rq.path[3]) = NaN
    THEN Respond(rq, 400, <<>>, NoId, NoHash)
    ELSE [rq EXCEPT !.pc = "get"]

\* POST /api/pages after getDb: 400 without url or content, otherwise
\* upsertPage runs to its first await.
SavePage(rq) ==
    IF rq.body.url = "" \/ rq.body.content = <<>>
    THEN Respond(rq, 400, <<>>, NoId, NoHash)
    ELSE [rq EXCEPT !.pc = "upsertRun"]

\* The two checks of urls that both batch handlers make.
UrlsRejected(urls) ==
    \/ ~urls.isArray
    \/ Len(urls.elems) = 0
    \/ Len(urls.elems) > MAX_URLS

\* POST /api/crawl after getDb: the checks, then runWithConcurrency starts.
Crawl(rq) ==
    IF UrlsRejected(rq.body.urls)
    THEN Respond(rq, 400, <<>>, NoId, NoHash)
    ELSE PoolStart(rq, rq.body.urls.elems, FETCH_CONCURRENCY)

\* POST /api/preview: the checks, then runWithConcurrency starts.  The
\* handler never calls getDb.
Preview(rq) ==
    IF UrlsRejected(rq.body.urls)
    THEN Respond(rq, 400, <<>>, NoId, NoHash)
    ELSE PoolStart(rq, rq.body.urls.elems, FETCH_CONCURRENCY)

\* The handler of the request from the point where getDb has returned to
\* its next await.
Handler(rq) ==
    CASE Route(rq.method, rq.path) = "list" -> ListPages(rq)
      [] Route(rq.method, rq.path) = "getById" -> GetPage(rq)
      [] Route(rq.method, rq.path) = "save" -> SavePage(rq)
      [] Route(rq.method, rq.path) = "crawl" -> Crawl(rq)
      [] Route(rq.method, rq.path) = "preview" -> Preview(rq)

\* ------------------------------------------------------------ db.js: getDb
\* ensureColumns on a table of the first schema: ALTER TABLE ADD COLUMN for
\* title, status_code and content_hash, each committed on its own; the rows
\* that were there get NULL in the added columns.
AddedColumns(store) ==
    [exists |-> TRUE, schema |-> "altered",
     rows |-> IF store.schema = "legacy"
              THEN { [id |-> row.id, url |-> row.url, title |-> NullText,
                      content |-> row.content, statusCode |-> NoStatus,
                      contentHash |-> NoHash, by |-> row.by] : row \in store.rows }
              ELSE store.rows]

\* The fourth column, fetched_at, has a default in parentheses, which ALTER
\* TABLE ADD COLUMN refuses on a table that holds rows: "Cannot add a
\* column with non-constant default".
AlterRefused(store) == store.schema \in {"legacy", "altered"} /\ store.rows # {}

\* initSchema that ran to its end: CREATE TABLE IF NOT EXISTS keeps an
\* existing table, and ensureColumns has added what it lacked.
Migrated(store) == [exists |-> TRUE, schema |-> "current", rows |-> store.rows]

NewReq(q) ==
    [IdleReq EXCEPT !.method = q.method, !.path = q.path, !.chatId = q.chatId,
                    !.body = q.body]

\* Mutant of GetDbEnter: dbCache.set before await initSchema.
GetDbEnterCaching(r, q) ==
    LET safeId == sanitizeChatId(q.chatId)
        hit == dbCache[safeId] # NoHandle
        h == Len(handles) + 1
    IN  /\ req' = [req EXCEPT ![r] =
                     IF hit THEN Handler([NewReq(q) EXCEPT !.db = dbCache[safeId]])
                     ELSE [NewReq(q) EXCEPT !.db = h, !.pc = "initSchema"]]
        /\ handles' = IF hit THEN handles
                      ELSE Append(handles, [file |-> safeId, init |-> "pending"])
        /\ disk' = IF hit THEN disk ELSE [disk EXCEPT ![safeId].exists = TRUE]
        /\ dbCache' = IF hit THEN dbCache ELSE [dbCache EXCEPT ![safeId] = h]

\* getDb up to its first await (lines 91-98): a cached handle is returned
\* and the handler goes on; otherwise a new handle is opened on the chat's
\* file, which creates the file, and initSchema starts.
GetDbEnter(r, q) ==
    LET safeId == sanitizeChatId(q.chatId)
        hit == dbCache[safeId] # NoHandle
        h == Len(handles) + 1
    IN  /\ req' = [req EXCEPT ![r] =
                     IF hit THEN Handler([NewReq(q) EXCEPT !.db = dbCache[safeId]])
                     ELSE [NewReq(q) EXCEPT !.db = h, !.pc = "initSchema"]]
        /\ handles' = IF hit THEN handles
                      ELSE Append(handles, [file |-> safeId, init |-> "pending"])
        /\ disk' = IF hit THEN disk ELSE [disk EXCEPT ![safeId].exists = TRUE]
        /\ UNCHANGED dbCache

\* await initSchema(db) resolves (lines 98-100): the schema is applied, the
\* handle is cached and returned, and the handler goes on.
InitSchemaOk(r) ==
    /\ req[r].pc = "initSchema"
    /\ ~AlterRefused(disk[StoreOf(r)])
    /\ disk' = [disk EXCEPT ![StoreOf(r)] = Migrated(@)]
    /\ dbCache' = [dbCache EXCEPT ![StoreOf(r)] = req[r].db]
    /\ handles' = [handles EXCEPT ![req[r].db].init = "ok"]
    /\ req' = [req EXCEPT ![r] = Handler(req[r])]
    /\ UNCHANGED <<ui, jobs>>

\* The promise of an async handler rejects.  No handler of index.js
\* catches around getDb or, in POST /api/pages, around upsertPage, and
\* Express 4 neither awaits a handler nor answers for it: no response.
Rejected(rq, error) == [rq EXCEPT !.pc = "rejected", !.error = error]

\* await initSchema(db) rejects: getDb throws before line 99, into the
\* handler.  A statement can fail for the file's sake at any time; on a
\* table of the first schema with rows the last ALTER TABLE always does,
\* after the columns before it were added.
InitSchemaFail(r) ==
    /\ req[r].pc = "initSchema"
    /\ handles' = [handles EXCEPT ![req[r].db].init = "failed"]
    /\ req' = [req EXCEPT ![r] = Rejected(req[r], "initSchema")]
    /\ disk' = [disk EXCEPT ![StoreOf(r)] =
                  IF AlterRefused(@) THEN AddedColumns(@) ELSE @]
    /\ UNCHANGED <<dbCache, ui, jobs>>

\* ------------------------------------------- index.js: the /api/pages routes
\* ORDER BY id DESC: id is the primary key, so the k-th row is the one with
\* k - 1 rows of a greater id.
OrderByIdDesc(rows) ==
    [k \in 1..Cardinality(rows) |->
        CHOOSE row \in rows : Cardinality({ o \in rows : o.id > row.id }) = k - 1]

\* ORDER BY id DESC LIMIT ? OFFSET ?  A negative LIMIT is no limit.
SelectPage(rows, limit, offset) ==
    LET all == OrderByIdDesc(rows)
    IN  IF limit < 0 THEN SubSeq(all, offset + 1, Len(all))
        ELSE SubSeq(all, offset + 1, Min(Len(all), offset + limit))

\* The rows a handle reads.
RowsOf(r) == disk[StoreOf(r)].rows

\* GET /api/pages: db.all resolves; { items, limit, offset } is sent.
ListPagesAll(r) ==
    /\ req[r].pc = "all"
    /\ ~LimitOf(req[r]).nan
    /\ ~OffsetOf(req[r]).nan
    /\ req' = [req EXCEPT ![r] =
                 Respond(req[r], 200,
                         SelectPage(RowsOf(r), LimitOf(req[r]).val, OffsetOf(req[r]).val),
                         NoId, NoHash)]
    /\ UNCHANGED <<dbCache, handles, disk, ui, jobs>>

\* GET /api/pages: db.all rejects.  NaN is bound as NULL, and SQLite
\* refuses a LIMIT or OFFSET that is no integer: "datatype mismatch".
ListPagesFail(r) ==
    /\ req[r].pc = "all"
    /\ LimitOf(req[r]).nan \/ OffsetOf(req[r]).nan
    /\ req' = [req EXCEPT ![r] = Rejected(req[r], "all")]
    /\ UNCHANGED <<dbCache, handles, disk, ui, jobs>>

\* GET /api/pages/:id: db.get resolves; 404 without a row, else the row.
GetPageGet(r) ==
    /\ req[r].pc = "get"
    /\ LET found == { row \in RowsOf(r) : row.id = ToNumber(req[r].path[3]) }
       IN  req' = [req EXCEPT ![r] =
                     IF found = {} THEN Respond(req[r], 404, <<>>, NoId, NoHash)
                     ELSE Respond(req[r], 200, <<CHOOSE row \in found : TRUE>>,
                                  NoId, NoHash)]
    /\ UNCHANGED <<dbCache, handles, disk, ui, jobs>>

\* { url, title: title || null, content, statusCode: statusCode ?? null }
SaveArg(body) ==
    [url |-> body.url,
     title |-> IF body.title = <<>> THEN NullText ELSE body.title,
     content |-> body.content, statusCode |-> body.statusCode]

\* POST /api/pages, upsertPage: await db.run(INSERT ...) resolves.
SaveUpsertRun(r) ==
    /\ req[r].pc = "upsertRun"
    /\ disk' = [disk EXCEPT ![StoreOf(r)].rows =
                  UpsertRows(@, SaveArg(req[r].body), req[r].chatId)]
    /\ req' = [req EXCEPT ![r].pc = "upsertGet"]
    /\ UNCHANGED <<dbCache, handles, ui, jobs>>

\* POST /api/pages, upsertPage: await db.run(INSERT ...) rejects, through
\* upsertPage into the handler.
SaveUpsertFail(r) ==
    /\ req[r].pc = "upsertRun"
    /\ req' = [req EXCEPT ![r] = Rejected(req[r], "write")]
    /\ UNCHANGED <<dbCache, handles, disk, ui, jobs>>

\* POST /api/pages, upsertPage: await db.get(SELECT id ...) resolves;
\* 201 { id, contentHash } is sent.
SaveUpsertGet(r) ==
    /\ req[r].pc = "upsertGet"
    /\ req' = [req EXCEPT ![r] =
                 Respond(req[r], 201, <<>>, SelectId(RowsOf(r), req[r].body.url),
                         hashContent(req[r].body.content))]
    /\ UNCHANGED <<dbCache, handles, disk, ui, jobs>>

\* ------------------------------------ index.js: the iterator of /api/crawl
\* { url, status, id, contentHash } or { url, status, reason }
Outcome(url, status, id, hash, reason) ==
    [url |-> url, status |-> status, id |-> id, contentHash |-> hash,
     reason |-> reason]

\* Mutant of FinalUrl: the page is stored under the url that was requested.
FinalUrlRequested(response, url) == url

\* response.url || url
FinalUrl(response, url) == IF response.url # "" THEN response.url ELSE url

\* fetch and response.text() have settled.  An exception gives 'failed',
\* an empty text 'skipped', otherwise upsertPage is called with the final
\* url of the response.
CrawlFetch(r) ==
    \E w \in req[r].workers :
        /\ req[r].pc = "pool"
        /\ RouteOf(r) = "crawl"
        /\ w.pc = "fetch"
        /\ \E got \in Settled[ItemOf(req[r], w)] :
             LET url == ItemOf(req[r], w)
                 response == got.response
                 content == got.content
             IN  req' = [req EXCEPT ![r] =
                           IF ~response.ok
                           THEN WorkerLoop(req[r], w, Outcome(url, "failed", NoId, NoHash, "fetch"))
                           ELSE IF content = <<>>
                           THEN WorkerLoop(req[r], w, Outcome(url, "skipped", NoId, NoHash, "no_content"))
                           ELSE WorkerStep(req[r], w,
                                    [w EXCEPT !.pc = "upsertRun",
                                              !.page = [url |-> FinalUrl(response, url),
                                                        title |-> got.title,
                                                        content |-> content,
                                                        statusCode |-> response.status]])]
        /\ UNCHANGED <<dbCache, handles, disk, ui, jobs>>

\* db.run of upsertPage resolves.
CrawlUpsertRun(r) ==
    \E w \in req[r].workers :
        /\ req[r].pc = "pool"
        /\ w.pc = "upsertRun"
        /\ disk' = [disk EXCEPT ![StoreOf(r)].rows = UpsertRows(@, w.page, req[r].chatId)]
        /\ req' = [req EXCEPT ![r] = WorkerStep(req[r], w, [w EXCEPT !.pc = "upsertGet"])]
        /\ UNCHANGED <<dbCache, handles, ui, jobs>>

\* db.run of upsertPage rejects; the catch of the iterator turns it into a
\* 'failed' outcome.
CrawlUpsertFail(r) ==
    \E w \in req[r].workers :
        /\ req[r].pc = "pool"
        /\ w.pc = "upsertRun"
        /\ req' = [req EXCEPT ![r] =
                     WorkerLoop(req[r], w,
                                Outcome(ItemOf(req[r], w), "failed", NoId, NoHash, "write"))]
        /\ UNCHANGED <<dbCache, handles, disk, ui, jobs>>

\* db.get of upsertPage resolves; the outcome is 'ok'.
CrawlUpsertGet(r) ==
    \E w \in req[r].workers :
        /\ req[r].pc = "pool"
        /\ w.pc = "upsertGet"
        /\ req' = [req EXCEPT ![r] =
                     WorkerLoop(req[r], w,
                                Outcome(ItemOf(req[r], w), "ok",
                                        SelectId(RowsOf(r), w.page.url),
                                        hashContent(w.page.content), ""))]
        /\ UNCHANGED <<dbCache, handles, disk, ui, jobs>>

\* await Promise.all(workers) resolves, in either batch handler:
\* res.json({ items: results.filter(Boolean) }).
PoolFinish(r) ==
    /\ req[r].pc = "pool"
    /\ req[r].workers = {}
    /\ req' = [req EXCEPT ![r] =
                 Respond(req[r], 200, SelectSeq(req[r].results, Truthy), NoId, NoHash)]
    /\ UNCHANGED <<dbCache, handles, disk, ui, jobs>>

\* ---------------------------------- index.js: the iterator of /api/preview
\* String.prototype.toLowerCase on the letters of the model
ToLower(s) == [i \in 1..Len(s) |-> IF s[i] = "X" THEN "x" ELSE s[i]]

\* String.prototype.includes
Includes(s, sub) ==
    \E i \in 0..(Len(s) - Len(sub)) : SubSeq(s, i + 1, i + Len(sub)) = sub

\* (query || '').toString().trim().toLowerCase()
NormalizedQuery(body) == ToLower(Trim(body.query))

\* fetch and response.text() have settled: null for an exception, an empty
\* text or a text without the query, otherwise the page under its final url.
PreviewFetch(r) ==
    \E w \in req[r].workers :
        /\ req[r].pc = "pool"
        /\ RouteOf(r) = "preview"
        /\ w.pc = "fetch"
        /\ \E got \in Settled[ItemOf(req[r], w)] :
             LET url == ItemOf(req[r], w)
                 response == got.response
                 content == got.content
                 query == NormalizedQuery(req[r].body)
             IN  req' = [req EXCEPT ![r] =
                           IF \/ ~response.ok
                              \/ content = <<>>
                              \/ query # <<>> /\ ~Includes(ToLower(content), query)
                           THEN WorkerLoop(req[r], w, NullItem)
                           ELSE WorkerLoop(req[r], w,
                                    [url |-> FinalUrl(response, url),
                                     status |-> "item",
                                     title |-> got.title,
                                     content |-> content,
                                     statusCode |-> response.status])]
        /\ UNCHANGED <<dbCache, handles, disk, ui, jobs>>

\* Either iterator calls fetch(url, { redirect: 'follow' }) without a
\* signal: against a server that keeps the connection open and never
\* completes its response, the awaited promise can stay pending for good,
\* and the worker with it.
FetchHangs(r) ==
    \E w \in req[r].workers :
        /\ req[r].pc = "pool"
        /\ w.pc = "fetch"
        /\ ItemOf(req[r], w) = UHang
        /\ req' = [req EXCEPT ![r] = WorkerStep(req[r], w, [w EXCEPT !.pc = "pending"])]
        /\ UNCHANGED <<dbCache, handles, disk, ui, jobs>>

\* ------------------------------------------------------------ the requests
Get(path, chatId) ==
    [method |-> "GET", path |-> path, chatId |-> chatId, body |-> NoBody]

Post(path, chatId, body) ==
    [method |-> "POST", path |-> path, chatId |-> chatId, body |-> body]

\* GET /api/pages/search?q=...&chatId=..., as searchPages of the client
\* sends it; q is kept where a POST keeps its body.
Search(chatId, q) ==
    [method |-> "GET", path |-> <<"api", "pages", "search">>, chatId |-> chatId,
     body |-> [q |-> q]]

Array(elems) == [isArray |-> TRUE, elems |-> elems]

NotArray == [isArray |-> FALSE, elems |-> <<>>]

TooMany == Array([i \in 1..(MAX_URLS + 1) |-> UBroken])

SaveX == [url |-> UA, title |-> <<"x">>, content |-> <<"x">>, statusCode |-> 200]

SaveY == [url |-> UA, title |-> <<>>, content |-> <<"y">>, statusCode |-> NoStatus]

SaveNothing == [url |-> UA, title |-> <<>>, content |-> <<>>, statusCode |-> NoStatus]

\* The requests of Spec: reads and saves under every chat id, two searches,
\* a save without content and a one-page crawl.
Requests ==
    UNION { { Get(<<"api", "pages">>, c),
              Get(<<"api", "pages", "1">>, c),
              Post(<<"api", "pages">>, c, SaveX),
              Post(<<"api", "pages">>, c, SaveY) }
            : c \in RawIds }
    \cup { Search(<<"a", "/">>, <<>>),
           Search(<<"a">>, <<"x">>),
           Post(<<"api", "pages">>, Undefined, SaveNothing),
           Post(<<"api", "crawl">>, <<"a">>, [urls |-> Array(<<URedirect>>)]) }

\* The requests of SpecCrawl: batches and a save under one chat id.
BatchRequests ==
    { Post(<<"api", "crawl">>, <<"a">>, [urls |-> u]) :
        u \in { NotArray, Array(<<>>), TooMany, Array(<<UA, UA>>),
                Array(<<URedirect>>) } }
    \cup { Post(<<"api", "preview">>, Undefined, b) :
             b \in { [urls |-> Array(<<>>), query |-> <<>>],
                     [urls |-> TooMany, query |-> <<>>],
                     [urls |-> Array(<<UA>>), query |-> <<" ", "X">>] } }
    \cup { Post(<<"api", "pages">>, <<"a">>, SaveY) }

\* A list of n urls: broken at position f, a page at position g, pages
\* without text elsewhere.
Batch(n, f, g) ==
    Array([i \in 1..n |-> IF i = f THEN UBroken ELSE IF i = g THEN UA ELSE UEmpty])

\* A batch with a duplicate and a broken url.
ScenarioUrls == <<UA, UBroken, UA>>

\* The requests of SpecPool: one batch of up to MaxBatch urls, or the batch
\* of ScenarioUrls.
PoolRequests ==
    { Post(<<"api", "crawl">>, <<"a">>, [urls |-> Array(ScenarioUrls)]) } \cup
    UNION { { Post(<<"api", "crawl">>, <<"a">>, [urls |-> Batch(n, f, g)]),
              Post(<<"api", "preview">>, Undefined,
                   [urls |-> Batch(n, f, g), query |-> <<>>]) }
            : n \in 1..MaxBatch, f \in {1, MaxBatch}, g \in {2, FETCH_CONCURRENCY} }

\* The requests of SpecNet: batches over a silent server, an image, a
\* broken url and a redirect.
NetRequests ==
    { Post(<<"api", "crawl">>, <<"a">>, [urls |-> Array(u)]) :
        u \in { <<UHang, UA>>, <<UImage, UBroken>>, <<URedirect, UA>> } }
    \cup { Post(<<"api", "preview">>, Undefined, [urls |-> Array(u), query |-> <<>>]) :
             u \in { <<UHang, UA>>, <<UImage>> } }

\* Mutant of Receive: the preview handler opens the chat's store first, as
\* the other handlers do.
ReceiveOpening(r, q) ==
    /\ req[r].pc = "idle"
    /\ \A k \in 1..(r - 1) : req[k].pc # "idle"
    /\ GetDbEnter(r, q)
    /\ UNCHANGED <<ui, jobs>>

\* Request q arrives as the r-th request: express picks the route, and the
\* handler runs to its first await, which is getDb's except for preview.
Arrive(r, q) ==
    /\ req[r].pc = "idle"
    /\ \A k \in 1..(r - 1) : req[k].pc # "idle"
    /\ IF Route(q.method, q.path) = "preview"
       THEN /\ req' = [req EXCEPT ![r] = Handler(NewReq(q))]
            /\ UNCHANGED <<dbCache, handles, disk>>
       ELSE GetDbEnter(r, q)

\* A request of a client that the model does not follow.
Receive(r, q) == Arrive(r, q) /\ UNCHANGED <<ui, jobs>>

DbStep(r) == InitSchemaOk(r) \/ InitSchemaFail(r)

ReadStep(r) == ListPagesAll(r) \/ GetPageGet(r)

SaveStep(r) == SaveUpsertRun(r) \/ SaveUpsertFail(r) \/ SaveUpsertGet(r)

CrawlStep(r) ==
    \/ CrawlFetch(r)
    \/ CrawlUpsertRun(r)
    \/ CrawlUpsertFail(r)
    \/ CrawlUpsertGet(r)
    \/ PoolFinish(r)

PreviewStep(r) == PreviewFetch(r)

\* ------------------------------------------- App.tsx: the conversations
\* String(n) of a conversation id, as JSON.stringify and the server's
\* String(chatId) make it.
RECURSIVE NumberText(_)
NumberText(n) ==
    IF n < 10 THEN <<ToString(n)>>
    ELSE NumberText(n \div 10) \o <<ToString(n % 10)>>

ChatIds == 1..MaxChats

ChatSafeIds == { sanitizeChatId(NumberText(id)) : id \in ChatIds }

ConversationIds(convs) == { convs[i] : i \in 1..Len(convs) }

\* Functions.tsx getNextConversationId: 1 for no conversation, else the
\* highest id plus one.
getNextConversationId(conversations) ==
    IF Len(conversations) = 0 THEN 1
    ELSE SetMax(ConversationIds(conversations)) + 1

\* handleNewChat: a conversation with the next id is appended and becomes
\* the active one.
NewChat ==
    LET nextId == getNextConversationId(ui.conversations)
    IN  /\ nextId <= MaxChats
        /\ ui' = [ui EXCEPT !.conversations = Append(@, nextId),
                            !.activeConversationId = nextId]
        /\ UNCHANGED <<req, dbCache, handles, disk, jobs>>

\* onClick of a conversation item: setActiveConversationId(conv.id).
SelectConversation(id) ==
    /\ id \in ConversationIds(ui.conversations)
    /\ ui' = [ui EXCEPT !.activeConversationId = id]
    /\ UNCHANGED <<req, dbCache, handles, disk, jobs>>

\* handleDeleteConversation: the conversation leaves the list; when it was
\* the active one, the first that is left becomes active, or a new one is
\* made when none is left.  No request is sent to the server.
DeleteConversation(id) ==
    LET prev == ui.conversations
        next == SelectSeq(prev, LAMBDA c : c # id)
        newId == getNextConversationId(prev)
    IN  /\ id \in ConversationIds(prev)
        /\ next = <<>> /\ id = ui.activeConversationId => newId <= MaxChats
        /\ ui' = IF id # ui.activeConversationId
                 THEN [ui EXCEPT !.conversations = next]
                 ELSE IF Len(next) > 0
                 THEN [ui EXCEPT !.conversations = next,
                                 !.activeConversationId = next[1]]
                 ELSE [ui EXCEPT !.conversations = <<newId>>,
                                 !.activeConversationId = newId]
        /\ UNCHANGED <<req, dbCache, handles, disk, jobs>>

\* ------------------------------------------------ App.tsx: handleCrawl
\* The texts of the url field: empty, or one url.
UrlInputs == { <<>>, <<UA>> }

\* handleCrawl up to its await: an empty list is refused; otherwise
\* crawlUrls posts { urls, chatId } with the active conversation's id,
\* which arrives at the server as its r-th request.
HandleCrawl(r, urls) ==
    /\ ~ui.crawlBusy
    /\ IF Len(urls) = 0
       THEN /\ ui' = [ui EXCEPT !.crawlError = "errorUrlRequired"]
            /\ UNCHANGED <<req, dbCache, handles, disk>>
       ELSE /\ Arrive(r, Post(<<"api", "crawl">>, NumberText(ui.activeConversationId),
                              [urls |-> Array(urls)]))
            /\ ui' = [ui EXCEPT !.crawlBusy = TRUE, !.crawlError = "",
                                !.crawlCall = [kind |-> "crawl", r |-> r,
                                               chatId |-> ui.activeConversationId]]
    /\ UNCHANGED jobs

\* handleCrawl after its await: setCrawlResults(response.items), or the
\* error of a response that is not ok; crawlChat records the conversation
\* the items were crawled under (not a state of App).
CrawlResponse(r) ==
    /\ ui.crawlCall.kind = "crawl"
    /\ ui.crawlCall.r = r
    /\ req[r].pc = "done"
    /\ ui' = IF req[r].resp.status = 200
             THEN [ui EXCEPT !.crawlResults = req[r].resp.items,
                             !.crawlChat = ui.crawlCall.chatId,
                             !.crawlBusy = FALSE, !.crawlCall = NoCall]
             ELSE [ui EXCEPT !.crawlError = "errorCrawlFailed",
                             !.crawlBusy = FALSE, !.crawlCall = NoCall]
    /\ UNCHANGED <<req, dbCache, handles, disk, jobs>>

\* The state of SpecChat: App is mounted, and no store exists.
InitChat ==
    /\ req = [r \in Reqs |-> IdleReq]
    /\ dbCache = [s \in ChatSafeIds |-> NoHandle]
    /\ handles = <<>>
    /\ ui = InitUi
    /\ jobs = InitJobs
    /\ disk = [s \in ChatSafeIds |-> NoStore]

\* Conversations are made, chosen and deleted, and pages are crawled under
\* the active one.
NextChat ==
    \/ NewChat
    \/ \E id \in ChatIds : SelectConversation(id) \/ DeleteConversation(id)
    \/ \E r \in Reqs : \E urls \in UrlInputs : HandleCrawl(r, urls)
    \/ \E r \in Reqs : CrawlResponse(r) \/ DbStep(r) \/ CrawlStep(r)

SpecChat == InitChat /\ [][NextChat]_vars

\* ------------------------------------- the page repository's keyword filter
\* The server's handlers of /api/pages/filter-preview and filter-delete are
\* not among the sources; they are modelled from section 4.4 of the
\* specification.

\* A row contains a keyword in its title or its content.
RowContains(row, keyword) ==
    Includes(row.content, keyword) \/ Includes(row.title, keyword)

\* A row matches when it contains one of the include keywords, if there
\* are any, and none of the exclude keywords.
FilterMatches(row, include, exclude) ==
    /\ Len(include) = 0 \/ \E i \in 1..Len(include) : RowContains(row, include[i])
    /\ \A i \in 1..Len(exclude) : ~RowContains(row, exclude[i])

PreviewCap == 2

\* filterPreview: a bounded preview of the matching rows and their count.
filterPreview(rows, include, exclude) ==
    LET matching == { row \in rows : FilterMatches(row, include, exclude) }
        ordered == OrderByIdDesc(matching)
    IN  [items |-> SubSeq(ordered, 1, Min(Len(ordered), PreviewCap)),
         total |-> Cardinality(matching)]

\* Mutant of filterDelete: the delete looks at the include keywords only.
filterDeleteIncludeOnly(rows, include, exclude) ==
    LET matching == { row \in rows : FilterMatches(row, include, <<>>) }
    IN  [deletedCount |-> Cardinality(matching),
         deletedIds |-> { row.id : row \in matching },
         rows |-> rows \ matching]

\* filterDelete: the matching rows are deleted; rows is what the store
\* holds afterwards.
filterDelete(rows, include, exclude) ==
    LET matching == { row \in rows : FilterMatches(row, include, exclude) }
    IN  [deletedCount |-> Cardinality(matching),
         deletedIds |-> { row.id : row \in matching },
         rows |-> rows \ matching]

\* ------------------------- App.tsx: handleFilterPreview, handleFilterDelete
\* The keywords of a text from position i on; cur is the entry that is
\* being read.  Entries end at a comma or a line break, are trimmed, and
\* empty ones are dropped.
RECURSIVE KeywordsFrom(_, _, _)
KeywordsFrom(value, i, cur) ==
    LET entry == IF Trim(cur) = <<>> THEN <<>> ELSE << Trim(cur) >>
    IN  IF i > Len(value) THEN entry
        ELSE IF value[i] \in {",", "\n"}
        THEN entry \o KeywordsFrom(value, i + 1, <<>>)
        ELSE KeywordsFrom(value, i + 1, Append(cur, value[i]))

\* value.split(/[\n,]+/).map(trim).filter(Boolean)
parseKeywords(value) == KeywordsFrom(value, 1, <<>>)

\* What the user types into a keyword field.
FilterTexts == { <<>>, <<"x">>, <<"y">>, <<" ", "x", ",", ",", "z">> }

\* onChange of the two keyword fields.
TypeFilter(include, exclude) ==
    /\ <<include, exclude>> # <<ui.filterInclude, ui.filterExclude>>
    /\ ui' = [ui EXCEPT !.filterInclude = include, !.filterExclude = exclude]
    /\ UNCHANGED <<req, dbCache, handles, disk, jobs>>

\* A filter call as the handler sends it: the keywords of the two fields
\* and the active conversation.
FilterCall(kind) ==
    [kind |-> kind, pc |-> "sent",
     include |-> parseKeywords(ui.filterInclude),
     exclude |-> parseKeywords(ui.filterExclude),
     chatId |-> ui.activeConversationId,
     items |-> <<>>, total |-> 0, deletedIds |-> {}]

\* handleFilterPreview up to its await.
HandleFilterPreview ==
    /\ ~ui.filterBusy
    /\ ui' = [ui EXCEPT !.filterBusy = TRUE, !.filterError = "",
                        !.filterCall = FilterCall("preview")]
    /\ UNCHANGED <<req, dbCache, handles, disk, jobs>>

\* handleFilterDelete up to its await; the button is disabled while no
\* preview has a match.
HandleFilterDelete ==
    /\ ~ui.filterBusy
    /\ ui.filterPreviewTotal # 0
    /\ ui' = [ui EXCEPT !.filterBusy = TRUE, !.filterError = "",
                        !.filterCall = FilterCall("delete")]
    /\ UNCHANGED <<req, dbCache, handles, disk, jobs>>

\* The store a filter call names.
FilterStore(call) == sanitizeChatId(NumberText(call.chatId))

\* The server answers a filter call (modelled from the specification).
FilterServe ==
    /\ ui.filterCall.kind \in {"preview", "delete"}
    /\ ui.filterCall.pc = "sent"
    /\ LET call == ui.filterCall
           rows == disk[FilterStore(call)].rows
           previewed == filterPreview(rows, call.include, call.exclude)
           deleted == filterDelete(rows, call.include, call.exclude)
       IN  IF call.kind = "preview"
           THEN /\ ui' = [ui EXCEPT !.filterCall =
                             [call EXCEPT !.pc = "ok", !.items = previewed.items,
                                          !.total = previewed.total]]
                /\ UNCHANGED disk
           ELSE /\ ui' = [ui EXCEPT !.filterCall =
                             [call EXCEPT !.pc = "ok", !.total = deleted.deletedCount,
                                          !.deletedIds = deleted.deletedIds]]
                /\ disk' = [disk EXCEPT ![FilterStore(call)].rows = deleted.rows]
    /\ UNCHANGED <<req, dbCache, handles, jobs>>

\* The call fails: fetch rejects, or the response is not ok.
FilterFails ==
    /\ ui.filterCall.kind \in {"preview", "delete"}
    /\ ui.filterCall.pc = "sent"
    /\ ui' = [ui EXCEPT !.filterCall.pc = "failed"]
    /\ UNCHANGED <<req, dbCache, handles, disk, jobs>>

\* The handler after its await: the preview is shown; after a delete the
\* deleted ids leave searchResults and the preview is cleared; the catch
\* sets the error.
FilterResponse ==
    /\ ui.filterCall.kind \in {"preview", "delete"}
    /\ ui.filterCall.pc \in {"ok", "failed"}
    /\ LET call == ui.filterCall
           done == [ui EXCEPT !.filterBusy = FALSE, !.filterCall = NoCall]
       IN  ui' = IF call.pc = "failed"
                 THEN [done EXCEPT !.filterError =
                           IF call.kind = "preview" THEN "errorFilterPreviewFailed"
                           ELSE "errorFilterDeleteFailed"]
                 ELSE IF call.kind = "preview"
                 THEN [done EXCEPT !.filterPreviewItems = call.items,
                                   !.filterPreviewTotal = call.total]
                 ELSE [done EXCEPT !.searchResults =
                                       SelectSeq(@, LAMBDA item : item.id \notin call.deletedIds),
                                   !.filterPreviewItems = <<>>,
                                   !.filterPreviewTotal = 0]
    /\ UNCHANGED <<req, dbCache, handles, disk, jobs>>

\* A page of the store of SpecFilter.
FilterRow(id, content) ==
    [id |-> id, url |-> "http://a.test/" \o ToString(id), title |-> NullText,
     content |-> content, statusCode |-> NoStatus,
     contentHash |-> hashContent(content), by |-> <<"1">>]

\* The state of SpecFilter: the store of conversation 1 holds four pages.
InitFilter ==
    /\ req = [r \in Reqs |-> IdleReq]
    /\ dbCache = [s \in ChatSafeIds |-> NoHandle]
    /\ handles = <<>>
    /\ ui = InitUi
    /\ jobs = InitJobs
    /\ disk = [s \in ChatSafeIds |->
                 IF s = <<"1">>
                 THEN [exists |-> TRUE, schema |-> "current",
                       rows |-> { FilterRow(1, <<"x">>), FilterRow(2, <<"x", " ", "y">>),
                                  FilterRow(3, <<"y">>), FilterRow(4, <<"z">>) }]
                 ELSE NoStore]

\* Keywords are typed, previewed and deleted by.
NextFilter ==
    \/ \E include \in FilterTexts : \E exclude \in FilterTexts :
           TypeFilter(include, exclude)
    \/ HandleFilterPreview
    \/ HandleFilterDelete
    \/ FilterServe
    \/ FilterFails
    \/ FilterResponse

SpecFilter == InitFilter /\ [][NextFilter]_vars

\* ------------------------------------------------ the aggregated job search
\* The server's handler of /api/jobs/search is not among the sources; it is
\* modelled from section 4.6 of the specification and the Job Search
\* section of API.md.

\* Two of the sources, in the order their results are merged.
Sources == <<"arbeitnow", "remotive">>

Job(url, source) == [url |-> url, source |-> source]

\* What a source can answer: a failure or a time-out, or a list of jobs.
SourceAnswers(source) ==
    { [ok |-> FALSE, items |-> <<>>],
      [ok |-> TRUE, items |-> << Job("j1", source) >>] }

\* Duplicates by url are dropped; the first occurrence wins.
RECURSIVE DedupByUrl(_, _)
DedupByUrl(items, seen) ==
    IF items = <<>> THEN <<>>
    ELSE IF Head(items).url \in seen THEN DedupByUrl(Tail(items), seen)
    ELSE << Head(items) >> \o DedupByUrl(Tail(items), seen \cup { Head(items).url })

\* The results of the sources that answered, source by source.
RECURSIVE Concatenated(_, _)
Concatenated(answers, i) ==
    IF i > Len(answers) THEN <<>>
    ELSE (IF answers[i].ok THEN answers[i].items ELSE <<>>)
         \o Concatenated(answers, i + 1)

MergeJobs(answers) == DedupByUrl(Concatenated(answers, 1), {})

FailureCount(answers) == Cardinality({ i \in 1..Len(answers) : ~answers[i].ok })

\* The key of the cache: the normalized query.
CacheKey(query) == ToLower(Trim(query))

\* Mutant of Fresh: an entry never expires.
FreshForever(entry) == TRUE

\* An entry is served for CacheTtl minutes after it was stored; age is the
\* minutes since then, counted up to CacheTtl.
Fresh(entry) == entry.age < CacheTtl

FreshEntries(query) ==
    { e \in jobs.cache : e.key = CacheKey(query) /\ Fresh(e) }

\* A minute passes.
Tick ==
    /\ \E e \in jobs.cache : e.age < CacheTtl
    /\ jobs' = [jobs EXCEPT !.cache =
                   { [e EXCEPT !.age = Min(@ + 1, CacheTtl)] : e \in @ }]
    /\ UNCHANGED <<req, dbCache, handles, disk, ui>>

\* -------------------------------------------- App.tsx: handleSearchAll
\* getNormalizedQueries: the fields' values, trimmed, without the empty.
RECURSIVE getNormalizedQueries(_)
getNormalizedQueries(fields) ==
    IF fields = <<>> THEN <<>>
    ELSE (IF Trim(Head(fields)) = <<>> THEN <<>> ELSE << Trim(Head(fields)) >>)
         \o getNormalizedQueries(Tail(fields))

\* What the search fields hold when the search is started.
SearchFieldTexts ==
    { << <<" ">> >>, << <<"x", " ">> >>, << <<"x">>, <<"X">> >> }

\* The call of searchPages and that of searchJobs for one query, as they
\* leave the handler.
PageCall(query) == [pc |-> "sent", query |-> query, r |-> 0, items |-> <<>>]

JobCall(query) ==
    [pc |-> "sent", query |-> query, items |-> <<>>, cacheHit |-> FALSE,
     failures |-> 0, called |-> 0]

\* handleSearchAll up to its await: without a query the error is set;
\* otherwise searchPages and searchJobs are called for every query, and
\* Promise.all over the two Promise.allSettled is awaited.
HandleSearchAll(searchFields) ==
    LET normalizedQueries == getNormalizedQueries(searchFields)
    IN  /\ ~ui.searchBusy
        /\ ui' = IF Len(normalizedQueries) = 0
                 THEN [ui EXCEPT !.searchError = {"errorSearchQueryRequired"}]
                 ELSE [ui EXCEPT
                         !.searchBusy = TRUE, !.searchError = {},
                         !.searchCall =
                             [kind |-> "search", queries |-> normalizedQueries,
                              chatId |-> ui.activeConversationId,
                              pages |-> [i \in 1..Len(normalizedQueries) |->
                                            PageCall(normalizedQueries[i])],
                              jobs |-> [i \in 1..Len(normalizedQueries) |->
                                           JobCall(normalizedQueries[i])]]]
        /\ UNCHANGED <<req, dbCache, handles, disk, jobs>>

Searching == ui.searchCall.kind = "search"

CallIndexes == IF Searching THEN 1..Len(ui.searchCall.queries) ELSE {}

\* The request of searchPages arrives at the server as its r-th request.
PageSearchArrives(i, r) ==
    /\ i \in CallIndexes
    /\ ui.searchCall.pages[i].pc = "sent"
    /\ Arrive(r, Search(NumberText(ui.searchCall.chatId), ui.searchCall.pages[i].query))
    /\ ui' = [ui EXCEPT !.searchCall.pages[i].pc = "arrived",
                        !.searchCall.pages[i].r = r]
    /\ UNCHANGED jobs

\* fetch of searchPages rejects: the request does not reach the server.
PageSearchFails(i) ==
    /\ i \in CallIndexes
    /\ ui.searchCall.pages[i].pc = "sent"
    /\ ui' = [ui EXCEPT !.searchCall.pages[i].pc = "rejected"]
    /\ UNCHANGED <<req, dbCache, handles, disk, jobs>>

\* The response of the server arrives: searchPages returns its JSON, or
\* throws for a response that is not ok.
PageSearchSettles(i) ==
    /\ i \in CallIndexes
    /\ ui.searchCall.pages[i].pc = "arrived"
    /\ LET r == ui.searchCall.pages[i].r
       IN  /\ req[r].pc = "done"
           /\ ui' = IF req[r].resp.status = 200
                    THEN [ui EXCEPT !.searchCall.pages[i].pc = "fulfilled",
                                    !.searchCall.pages[i].items = req[r].resp.items]
                    ELSE [ui EXCEPT !.searchCall.pages[i].pc = "rejected"]
    /\ UNCHANGED <<req, dbCache, handles, disk, jobs>>

\* fetch of searchJobs rejects, or the response is not ok: searchJobs
\* throws.
JobCallFails(i) ==
    /\ i \in CallIndexes
    /\ ui.searchCall.jobs[i].pc = "sent"
    /\ ui' = [ui EXCEPT !.searchCall.jobs[i].pc = "failed"]
    /\ UNCHANGED <<req, dbCache, handles, disk, jobs>>

\* The job search receives the call (modelled from the specification): a
\* fresh entry is returned with cacheHit and no call of a source;
\* otherwise every source is called.
JobLookup(i) ==
    /\ i \in CallIndexes
    /\ ui.searchCall.jobs[i].pc = "sent"
    /\ LET call == ui.searchCall.jobs[i]
           fresh == FreshEntries(call.query)
       IN  ui' = IF fresh # {}
                 THEN [ui EXCEPT !.searchCall.jobs[i] =
                          [call EXCEPT !.pc = "ok", !.cacheHit = TRUE,
                                       !.items = (CHOOSE e \in fresh : TRUE).items]]
                 ELSE [ui EXCEPT !.searchCall.jobs[i] =
                          [call EXCEPT !.pc = "sources", !.called = Len(Sources)]]
    /\ UNCHANGED <<req, dbCache, handles, disk, jobs>>

\* The sources have answered, failed or timed out (modelled from the
\* specification): what answered is merged, cached under the normalized
\* query and returned with the count of the failures.
JobSourcesSettle(i, answers) ==
    /\ i \in CallIndexes
    /\ ui.searchCall.jobs[i].pc = "sources"
    /\ LET call == ui.searchCall.jobs[i]
           key == CacheKey(call.query)
       IN  /\ ui' = [ui EXCEPT !.searchCall.jobs[i] =
                        [call EXCEPT !.pc = "ok", !.cacheHit = FALSE,
                                     !.items = MergeJobs(answers),
                                     !.failures = FailureCount(answers)]]
           /\ jobs' = [jobs EXCEPT !.cache =
                          { e \in @ : e.key # key }
                          \cup { [key |-> key, items |-> MergeJobs(answers),
                                  age |-> 0] }]
    /\ UNCHANGED <<req, dbCache, handles, disk>>

\* The page records of the fulfilled searches, without duplicates by id.
RECURSIVE MergedById(_, _, _)
MergedById(pages, i, seen) ==
    IF i > Len(pages) THEN <<>>
    ELSE LET items == IF pages[i].pc = "fulfilled" THEN pages[i].items ELSE <<>>
             new == SelectSeq(items, LAMBDA item : item.id \notin seen)
         IN  new \o MergedById(pages, i + 1, seen \cup { new[k].id : k \in 1..Len(new) })

RECURSIVE FulfilledJobs(_, _)

\* The items of all the calls from the i-th on.
RECURSIVE AllItems(_, _)
AllItems(calls, i) ==
    IF i > Len(calls) THEN <<>> ELSE calls[i].items \o AllItems(calls, i + 1)

\* Mutant of FulfilledJobs: one rejected call leaves no job at all, as
\* Promise.all in the place of Promise.allSettled would.
FulfilledJobsOrNone(calls, i) ==
    IF \E k \in 1..Len(calls) : calls[k].pc # "ok" THEN <<>>
    ELSE AllItems(calls, i)

\* jobItems: the items of the fulfilled job searches, query by query.
FulfilledJobs(calls, i) ==
    IF i > Len(calls) THEN <<>>
    ELSE (IF calls[i].pc = "ok" THEN calls[i].items ELSE <<>>)
         \o FulfilledJobs(calls, i + 1)

\* The messages of handleSearchAll; the url field is empty.
SearchMessages(call) ==
    (IF \E i \in 1..Len(call.jobs) : call.jobs[i].pc = "failed"
     THEN {"errorJobSearchFailedFor"} ELSE {})
    \cup (IF \E i \in 1..Len(call.pages) : call.pages[i].pc = "rejected"
          THEN {"errorSearchFailedFor"} ELSE {})
    \cup (IF \E i \in 1..Len(call.pages) :
                call.pages[i].pc = "fulfilled" /\ call.pages[i].items = <<>>
          THEN {"errorNoDbHitsFor"} ELSE {})

\* handleSearchAll after its await, when every call has settled: the
\* fulfilled results are shown, the failed queries are named.
SearchAllSettled ==
    /\ Searching
    /\ \A i \in CallIndexes :
           /\ ui.searchCall.pages[i].pc \in {"fulfilled", "rejected"}
           /\ ui.searchCall.jobs[i].pc \in {"ok", "failed"}
    /\ LET call == ui.searchCall
       IN  ui' = [ui EXCEPT !.searchResults = MergedById(call.pages, 1, {}),
                           !.jobResults = FulfilledJobs(call.jobs, 1),
                           !.searchError = SearchMessages(call),
                           !.searchBusy = FALSE,
                           !.searchCall = NoCall]
    /\ UNCHANGED <<req, dbCache, handles, disk, jobs>>

JobAnswers == { answers \in [1..Len(Sources) -> UNION { SourceAnswers(Sources[k]) : k \in 1..Len(Sources) }] :
                  \A k \in 1..Len(Sources) : answers[k] \in SourceAnswers(Sources[k]) }

\* Queries are typed and searched, while time passes.
NextJobs ==
    \/ \E searchFields \in SearchFieldTexts : HandleSearchAll(searchFields)
    \/ \E i \in 1..2 : PageSearchArrives(i, 1)
    \/ \E i \in 1..2 : PageSearchFails(i) \/ PageSearchSettles(i)
    \/ \E i \in 1..2 : JobCallFails(i) \/ JobLookup(i)
    \/ \E i \in 1..2 : \E answers \in JobAnswers : JobSourcesSettle(i, answers)
    \/ SearchAllSettled
    \/ Tick
    \/ DbStep(1)

SpecJobs == InitChat /\ [][NextJobs]_vars

\* Reads, saves and one-page crawls under all chat ids.
Next ==
    \/ \E r \in Reqs : \E q \in Requests : Receive(r, q)
    \/ \E r \in Reqs : DbStep(r) \/ ReadStep(r) \/ SaveStep(r) \/ CrawlStep(r)

Spec == Init /\ [][Next]_vars

\* Crawls, previews and a save under one chat id.
NextCrawl ==
    \/ \E r \in Reqs : \E q \in BatchRequests : Receive(r, q)
    \/ \E r \in Reqs : DbStep(r) \/ SaveStep(r) \/ CrawlStep(r) \/ PreviewStep(r)

SpecCrawl == Init /\ [][NextCrawl]_vars

\* One batch that is longer than the pool is wide.
NextPool ==
    \/ \E q \in PoolRequests : Receive(1, q)
    \/ DbStep(1) \/ CrawlStep(1) \/ PreviewStep(1)

SpecPool == Init /\ [][NextPool]_vars

\* GET /api/pages?limit=...&offset=...&chatId=...; the parameters are kept
\* where a POST keeps its body.
ListWith(chatId, limit, offset) ==
    [method |-> "GET", path |-> <<"api", "pages">>, chatId |-> chatId,
     body |-> [limit |-> limit, offset |-> offset]]

\* The values of a limit or offset parameter: absent, empty, negative, not
\* a number, zero, digits followed by a letter, and numbers around MaxLimit.
LimitTexts ==
    { Undefined, <<>>, <<"-", "1">>, <<"a">>, <<"0">>, <<"2", "x">>,
      <<"2", "0", "0">>, <<"2", "0", "1">>, <<"9", "9", "9">> }

OffsetTexts == { Undefined, <<"-", "5">>, <<"a">>, <<"1">>, <<"2", "0", "1">> }

\* The requests of SpecList: lists under chat id "a" with every limit and
\* offset, and a search.
ListRequests ==
    { ListWith(<<"a">>, l, o) : l \in LimitTexts, o \in OffsetTexts } \cup
    { Search(<<"a">>, <<"x">>) }

ListStep(r) == ListPagesAll(r) \/ ListPagesFail(r)

\* One list of a store that holds more than MaxLimit pages.
NextList ==
    \/ \E q \in ListRequests : Receive(1, q)
    \/ DbStep(1) \/ ListStep(1)

SpecList == InitList /\ [][NextList]_vars

\* The requests of SpecIds: a read under every chat id of AnyIds.
IdRequests ==
    { Get(<<"api", "pages">>, c) : c \in AnyIds } \cup
    { Get(<<"api", "pages", "1">>, c) : c \in AnyIds }

\* One read under any chat id.
NextIds ==
    \/ \E q \in IdRequests : Receive(1, q)
    \/ DbStep(1) \/ ReadStep(1)

SpecIds == InitIds /\ [][NextIds]_vars

\* Batches against servers that misbehave.  The event loop runs the
\* continuation of every promise that has settled, so each request's steps
\* are taken in the end; nothing obliges a request to arrive or a server
\* to stay silent.
NextNet ==
    \/ \E r \in Reqs : \E q \in NetRequests : Receive(r, q)
    \/ \E r \in Reqs : DbStep(r) \/ CrawlStep(r) \/ PreviewStep(r) \/ FetchHangs(r)

SpecNet ==
    /\ Init
    /\ [][NextNet]_vars
    /\ \A r \in Reqs : WF_vars(DbStep(r) \/ CrawlStep(r) \/ PreviewStep(r))

\* ================================================================== claims
\* A read that was answered with rows.
ReadDone(r) ==
    /\ req[r].pc = "done"
    /\ RouteOf(r) \in {"list", "getById"}
    /\ req[r].resp.status = 200

\* A save that was answered with { id, contentHash }.
SaveDone(r) ==
    /\ req[r].pc = "done"
    /\ RouteOf(r) = "save"
    /\ req[r].resp.status = 201

\* A crawl that was answered with its outcomes.
CrawlDone(r) ==
    /\ req[r].pc = "done"
    /\ RouteOf(r) = "crawl"
    /\ req[r].resp.status = 200

\* C1 as stated: a row written under chat id A is never returned by a read
\* issued under another chat id B.
C1_TenantIsolation ==
    \A r \in Reqs :
        ReadDone(r) =>
            \A i \in 1..Len(req[r].resp.items) :
                req[r].resp.items[i].by \in {NoWriter, req[r].chatId}

\* C1 as amended: a row written under chat id A is never returned by a read
\* issued under a chat id B whose sanitized form differs from that of A.
C1_SanitizedIsolation ==
    \A r \in Reqs :
        ReadDone(r) =>
            \A i \in 1..Len(req[r].resp.items) :
                \/ req[r].resp.items[i].by = NoWriter
                \/ sanitizeChatId(req[r].resp.items[i].by)
                       = sanitizeChatId(req[r].chatId)

\* A read under one chat id was answered while the store of another chat
\* id held a row written by a save or a crawl.
C1_Witness ==
    \E r \in Reqs :
        /\ req[r].pc = "done"
        /\ RouteOf(r) \in {"list", "getById"}
        /\ req[r].resp.items = <<>>
        /\ \E s \in SafeIds \ {sanitizeChatId(req[r].chatId)} :
               \E row \in disk[s].rows : row.by # NoWriter

C2_UniqueUrl ==
    \A s \in SafeIds :
        Cardinality({ row.url : row \in disk[s].rows }) = Cardinality(disk[s].rows)

C2_InPlace ==
    \A s \in SafeIds :
        \A row \in disk[s].rows :
            \E new \in disk'[s].rows : new.url = row.url /\ new.id = row.id

C3_ConcurrencyBound ==
    \A r \in Reqs : Cardinality(req[r].workers) <= FETCH_CONCURRENCY

\* A batch longer than the pool is wide, with the pool full after a worker
\* has taken a second url.
C3_Witness ==
    \E r \in Reqs :
        /\ req[r].pc = "pool"
        /\ Len(req[r].body.urls.elems) > FETCH_CONCURRENCY
        /\ req[r].nextIndex > FETCH_CONCURRENCY
        /\ Cardinality(req[r].workers) = FETCH_CONCURRENCY

\* C4: in an answered crawl every url was fetched and has its outcome, and
\* every url other than the broken one whose own write did not fail is
\* 'ok' or 'skipped'.
C4_SiblingsUnblocked ==
    \A r \in Reqs :
        CrawlDone(r) =>
            /\ req[r].fetches = Len(req[r].body.urls.elems)
            /\ Len(req[r].resp.items) = Len(req[r].body.urls.elems)
            /\ \A i \in 1..Len(req[r].results) :
                   /\ req[r].results[i].status # "hole"
                   /\ \/ req[r].body.urls.elems[i] = UBroken
                      \/ req[r].results[i].reason = "write"
                      \/ req[r].results[i].status \in {"ok", "skipped"}

\* A crawl longer than the pool is wide was answered with a 'failed'
\* outcome followed by an 'ok' and a 'skipped' one.
C4_Witness ==
    \E r \in Reqs :
        /\ CrawlDone(r)
        /\ Len(req[r].results) > FETCH_CONCURRENCY
        /\ req[r].results[1].status = "failed"
        /\ req[r].results[2].status = "ok"
        /\ req[r].results[Len(req[r].results)].status = "skipped"

\* C5: of the handles opened on one chat's file whose initSchema did not
\* fail, there is at most one, so that all callers hold the same handle.
C5_OneHandlePerTenant ==
    \A h1, h2 \in DOMAIN handles :
        /\ handles[h1].file = handles[h2].file
        /\ handles[h1].init # "failed"
        /\ handles[h2].init # "failed"
        => h1 = h2

\* C6: in every store whose pages table has the content_hash column, the
\* content_hash of each row is the hash of the row's content.
C6_HashConsistency ==
    \A s \in SafeIds :
        disk[s].schema \in {"altered", "current"} =>
            \A row \in disk[s].rows : row.contentHash = hashContent(row.content)

C8_ErrorSurfaced ==
    \A r \in Reqs : req[r].error # "none" => req[r].resp.status >= 400

\* C9: the cache holds only handles whose initSchema resolved, each under
\* its own file, and no other request holds the handle of a request whose
\* initSchema rejected.
C9_NothingCachedOnFailure ==
    /\ \A s \in SafeIds :
           dbCache[s] # NoHandle =>
               /\ handles[dbCache[s]].init = "ok"
               /\ handles[dbCache[s]].file = s
    /\ \A r1, r2 \in Reqs :
           req[r1].error = "initSchema" /\ r1 # r2 /\ req[r2].db # NoHandle
               => req[r2].db # req[r1].db

\* initSchema rejected for one request, and a later request for the same
\* chat was answered through a new handle, which is the cached one.
C9_Witness ==
    \E r1, r2 \in Reqs :
        /\ req[r1].error = "initSchema"
        /\ req[r2].pc = "done"
        /\ req[r2].db > req[r1].db
        /\ StoreOf(r2) = StoreOf(r1)
        /\ dbCache[StoreOf(r2)] = req[r2].db

\* C10: a crawl or preview whose urls is no array, is empty or has more
\* than MAX_URLS entries ends with status 400 and without a fetch.
C10_ValidationFirst ==
    \A r \in Reqs :
        /\ RouteOf(r) \in {"crawl", "preview"}
        /\ req[r].pc \in {"done", "rejected"}
        /\ UrlsRejected(req[r].body.urls)
        => req[r].resp.status = 400 /\ req[r].fetches = 0

\* C11: a batch that has started its pool is answered in the end, also
\* when one of its urls is served by a server that never responds.
C11_BatchCompletes ==
    \A r \in Reqs : (req[r].pc = "pool") ~> (req[r].pc = "done")

\* The arguments with which the upsertPage calls of request r are made: the
\* body of a save, or what a crawl has fetched for each of its urls.
UpsertArgs(r) ==
    IF RouteOf(r) = "save" THEN { SaveArg(req[r].body) }
    ELSE IF RouteOf(r) = "crawl" /\ req[r].body.urls.isArray
    THEN UNION { { [url |-> FinalUrl(got.response, req[r].body.urls.elems[i]),
                    title |-> got.title, content |-> got.content,
                    statusCode |-> got.response.status]
                   : got \in { g \in Settled[req[r].body.urls.elems[i]] : g.response.ok } }
                 : i \in 1..Len(req[r].body.urls.elems) }
    ELSE {}

\* C12: every row that an upsert has written carries the title, content,
\* status code and content hash of one single upsertPage call of the
\* request that wrote it last.
C12_WholeRows ==
    \A s \in SafeIds :
        \A row \in disk[s].rows :
            row.by # NoWriter =>
                \E r \in Reqs :
                    /\ req[r].chatId = row.by
                    /\ \E page \in UpsertArgs(r) :
                           /\ row.url = page.url
                           /\ row.title = page.title
                           /\ row.content = page.content
                           /\ row.statusCode = page.statusCode
                           /\ row.contentHash = hashContent(page.content)

\* Two saves of one url with different title, content and status code have
\* both run their INSERT on the same store and neither is answered yet.
C12_Witness ==
    \E r1, r2 \in Reqs :
        /\ req[r1].pc = "upsertGet"
        /\ req[r2].pc = "upsertGet"
        /\ StoreOf(r1) = StoreOf(r2)
        /\ req[r1].body.url = req[r2].body.url
        /\ req[r1].body.title # req[r2].body.title
        /\ req[r1].body.content # req[r2].body.content

\* A request for /api/pages/search whose handler has ended.
SearchEnded(r) ==
    /\ req[r].pc = "done"
    /\ req[r].method = "GET"
    /\ req[r].path = <<"api", "pages", "search">>

\* C13: a search request, whatever its q, is answered with status 200 and
\* { items, limit, offset }.
C13_SearchAnswered ==
    \A r \in Reqs : SearchEnded(r) => req[r].resp.status = 200

\* C14: a search request with an empty q is answered with an empty list of
\* items.
C14_EmptyQueryEmptyResult ==
    \A r \in Reqs :
        SearchEnded(r) /\ req[r].body.q = <<>> =>
            req[r].resp.status = 200 /\ req[r].resp.items = <<>>

\* The urls at which the redirect chain of url can end.
Destinations(url) == { got.response.url : got \in Settled[url] }

\* C15: in an answered crawl every 'ok' outcome names a row stored under
\* the destination of its url, the store holds one row for that
\* destination, and two urls with the same destination name the same row.
C15_ResolvedUrl ==
    \A r \in Reqs :
        CrawlDone(r) =>
            \A i, j \in 1..Len(req[r].results) :
                req[r].results[i].status = "ok" =>
                    /\ \E row \in RowsOf(r) :
                           /\ row.id = req[r].results[i].id
                           /\ row.url \in Destinations(req[r].body.urls.elems[i])
                           /\ \A other \in RowsOf(r) : other.url = row.url => other = row
                    /\ /\ req[r].results[j].status = "ok"
                       /\ Destinations(req[r].body.urls.elems[j])
                              = Destinations(req[r].body.urls.elems[i])
                       => req[r].results[j].id = req[r].results[i].id

\* A crawl of a redirecting url and a crawl of its destination were both
\* answered 'ok', and the store holds one row.
C15_Witness ==
    \E r1, r2 \in Reqs :
        /\ CrawlDone(r1)
        /\ CrawlDone(r2)
        /\ req[r1].body.urls.elems = <<URedirect>>
        /\ req[r1].results[1].status = "ok"
        /\ req[r2].body.urls.elems = <<UA, UA>>
        /\ req[r2].results[1].status = "ok"
        /\ req[r2].results[1].id = req[r1].results[1].id
        /\ Cardinality(RowsOf(r1)) = 1

\* C16: in an answered crawl the outcome of every url whose fetch met a
\* network error, the silent server or a response that is no text is
\* 'failed'.
C16_FailedOutcome ==
    \A r \in Reqs :
        CrawlDone(r) =>
            \A i \in 1..Len(req[r].results) :
                req[r].body.urls.elems[i] \in {UBroken, UHang, UImage} =>
                    req[r].results[i].status = "failed"

\* C17: the response of an answered crawl has one outcome for each url of
\* the request, in the request's order, each with status 'ok', 'failed' or
\* 'skipped'.
C17_OneOutcomePerUrl ==
    \A r \in Reqs :
        CrawlDone(r) =>
            /\ Len(req[r].resp.items) = Len(req[r].body.urls.elems)
            /\ \A i \in 1..Len(req[r].resp.items) :
                   /\ req[r].resp.items[i].url = req[r].body.urls.elems[i]
                   /\ req[r].resp.items[i].status \in {"ok", "failed", "skipped"}

\* A crawl of MaxBatch urls was answered with outcomes of all three kinds.
C17_Witness ==
    \E r \in Reqs :
        /\ CrawlDone(r)
        /\ Len(req[r].resp.items) = MaxBatch
        /\ { req[r].resp.items[i].status : i \in 1..MaxBatch }
               = {"ok", "failed", "skipped"}

\* The urls of a running pool whose iterator has returned.
Completed(r) ==
    Cardinality({ i \in 1..Len(req[r].results) : req[r].results[i] # Hole })

\* C18 as stated: while a run is in progress, FETCH_CONCURRENCY iterators
\* are in flight.
C18_ExactlyN ==
    \A r \in Reqs :
        req[r].pc = "pool" /\ req[r].workers # {} =>
            Cardinality(req[r].workers) = FETCH_CONCURRENCY

\* C18 as amended: while a run is in progress, the iterators in flight are
\* FETCH_CONCURRENCY or, when fewer urls are left without an outcome, as
\* many as those.
C18_MinInFlight ==
    \A r \in Reqs :
        req[r].pc = "pool" =>
            Cardinality(req[r].workers)
                = Min(FETCH_CONCURRENCY, Len(req[r].results) - Completed(r))

\* A batch longer than the pool is wide has handed out its last url, and
\* fewer iterators than FETCH_CONCURRENCY are still in flight.
C18_Witness ==
    \E r \in Reqs :
        /\ req[r].pc = "pool"
        /\ Len(req[r].results) > FETCH_CONCURRENCY
        /\ req[r].nextIndex = Len(req[r].results)
        /\ Cardinality(req[r].workers) \in 1..(FETCH_CONCURRENCY - 1)

\* C19 as stated: a store that exists was there from the start or belongs
\* to a chat for which a save or a crawl has been received.
C19_CreatedOnFirstWrite ==
    \A s \in SafeIds :
        disk[s].exists =>
            \/ disk[s].schema \in {"legacy", "altered"}
            \/ \E r \in Reqs :
                   /\ RouteOf(r) \in {"save", "crawl"}
                   /\ sanitizeChatId(req[r].chatId) = s

C20_PreviewStep ==
    \A r \in Reqs :
        Route(req'[r].method, req'[r].path) = "preview" /\ req'[r] # req[r] =>
            /\ disk' = disk
            /\ dbCache' = dbCache
            /\ handles' = handles

\* C20: no step of a preview request, from its arrival to its answer,
\* changes a store, a row, the handle cache or a handle.
C20_NoPersistence == [][C20_PreviewStep]_vars

\* A preview was answered with a page, and the store of its chat does not
\* exist.
C20_Witness ==
    \E r \in Reqs :
        /\ req[r].pc = "done"
        /\ RouteOf(r) = "preview"
        /\ Len(req[r].resp.items) > 0
        /\ ~disk[sanitizeChatId(req[r].chatId)].exists

\* An answered crawl of ScenarioUrls in which http://a.test was fetched and
\* stored both times.
Scenario(r) ==
    /\ CrawlDone(r)
    /\ req[r].body.urls.elems = ScenarioUrls
    /\ req[r].resp.items[1].status = "ok"
    /\ req[r].resp.items[3].status = "ok"

\* C21 as stated: the crawl of ScenarioUrls into an empty store leaves
\* exactly 2 rows.
C21_TwoRows ==
    \A r \in Reqs :
        Scenario(r) => Cardinality(disk[StoreOf(r)].rows) = 2

\* C21 as amended: the crawl of ScenarioUrls into an empty store leaves
\* exactly 1 row, that of http://a.test; the broken url has the one 'failed'
\* outcome and stores nothing; both outcomes of http://a.test carry the id
\* of that row.
C21_OneRow ==
    \A r \in Reqs :
        Scenario(r) =>
            /\ Cardinality(disk[StoreOf(r)].rows) = 1
            /\ \A row \in disk[StoreOf(r)].rows : row.url = UA
            /\ { i \in 1..3 : req[r].resp.items[i].status = "failed" } = {2}
            /\ req[r].resp.items[1].id = req[r].resp.items[3].id
            /\ \A row \in disk[StoreOf(r)].rows : row.id = req[r].resp.items[3].id

\* The crawl of ScenarioUrls was answered, both fetches of http://a.test
\* stored.
C21_Witness ==
    \E r \in Reqs : Scenario(r) /\ disk[StoreOf(r)].rows # {}

\* The 0-based indexes of a request that a worker holds, and those whose
\* iterator has returned.
Held(r) == { w.current : w \in req[r].workers }

Returned(r) == { i - 1 : i \in { j \in 1..Len(req[r].results) : req[r].results[j] # Hole } }

\* C28: in a run of the pool every index handed out so far is either held
\* by exactly one worker or has returned, never both; the indexes handed
\* out are those below nextIndex, each by one call of the iterator; when
\* the run is over every index has returned.
C28_ClaimedOnce ==
    \A r \in Reqs :
        req[r].pc = "pool" \/ (req[r].pc = "done" /\ req[r].resp.status = 200
                                 /\ RouteOf(r) \in {"crawl", "preview"}) =>
            /\ Cardinality(Held(r)) = Cardinality(req[r].workers)
            /\ Held(r) \cap Returned(r) = {}
            /\ Held(r) \cup Returned(r) = 0..(req[r].nextIndex - 1)
            /\ req[r].fetches = req[r].nextIndex
            /\ req[r].workers = {} =>
                   Returned(r) = 0..(Len(req[r].body.urls.elems) - 1)

\* A batch longer than the pool is wide was answered: workers went round
\* the loop and every index has returned.
C28_Witness ==
    \E r \in Reqs :
        /\ req[r].pc = "done"
        /\ req[r].resp.status = 200
        /\ Len(req[r].body.urls.elems) > FETCH_CONCURRENCY
        /\ req[r].fetches = Len(req[r].body.urls.elems)

\* C30: whatever the order in which the iterators return, an outcome of a
\* crawl stands at the position of its url in the request, and the response
\* carries the outcomes in that order.
C30_InputOrder ==
    \A r \in Reqs :
        /\ req[r].pc = "pool" /\ RouteOf(r) = "crawl" =>
               \A i \in 1..Len(req[r].results) :
                   req[r].results[i] # Hole =>
                       req[r].results[i].url = req[r].body.urls.elems[i]
        /\ CrawlDone(r) => req[r].resp.items = req[r].results

\* The iterator of the second url of a crawl has returned before that of
\* the first.
C30_Witness ==
    \E r \in Reqs :
        /\ req[r].pc = "pool"
        /\ RouteOf(r) = "crawl"
        /\ Len(req[r].results) >= 2
        /\ req[r].results[1] = Hole
        /\ req[r].results[2] # Hole
        /\ req[r].results[2].url = req[r].body.urls.elems[2]
        /\ req[r].body.urls.elems[1] # req[r].body.urls.elems[2]

\* The characters of a chat id that [a-zA-Z0-9_-] admits.
Kept(chatId) == SelectSeq(chatId, LAMBDA c : c \in SafeChars)

\* C22: whatever chat id a request carries, the file a handle is opened on
\* is named by a non-empty string over [a-zA-Z0-9_-]: the chat id without
\* its other characters, or the default id when nothing is left of it.
C22_SafeIdentifier ==
    \A h \in 1..Len(handles) :
        /\ Len(handles[h].file) > 0
        /\ \A i \in 1..Len(handles[h].file) : handles[h].file[i] \in SafeChars
        /\ \A r \in Reqs :
               req[r].db = h =>
                   handles[h].file = IF Kept(req[r].chatId) = <<>> THEN Default
                                     ELSE Kept(req[r].chatId)

\* A store was opened for a chat id of MaxIdLen characters that lost one of
\* them.
C22_Witness ==
    \E r \in Reqs :
        /\ req[r].db # NoHandle
        /\ Len(req[r].chatId) = MaxIdLen
        /\ Len(Kept(req[r].chatId)) = MaxIdLen - 1
        /\ StoreOf(r) = Kept(req[r].chatId)

\* A list or a search that was answered with rows.
ListDone(r) ==
    /\ req[r].pc = "done"
    /\ req[r].resp.status = 200
    /\ \/ RouteOf(r) = "list"
       \/ req[r].path = <<"api", "pages", "search">>

\* C29: whatever limit and offset a list or a search carries, the response
\* holds at most MaxLimit rows, and the offset that was used is not
\* negative.
C29_Bounded ==
    \A r \in Reqs :
        ListDone(r) =>
            /\ Len(req[r].resp.items) <= MaxLimit
            /\ OffsetOf(req[r]).val >= 0

\* C26: a conversation that enters the list starts on a store without
\* rows: its id names no store that an earlier conversation wrote to.
C26_FreshStore ==
    [][\A id \in ChatIds :
          id \notin ConversationIds(ui.conversations)
              /\ id \in ConversationIds(ui'.conversations)
          => disk[sanitizeChatId(NumberText(id))].rows = {}]_vars

\* C27: the crawl results on display were crawled under the active
\* conversation.
C27_ActiveRows ==
    ui.crawlResults # <<>> => ui.crawlChat = ui.activeConversationId

\* A filter call that asks for the delete is answered in this step.
DeleteAnswered ==
    /\ ui.filterCall.kind = "delete"
    /\ ui.filterCall.pc = "sent"
    /\ ui'.filterCall.kind = "delete"
    /\ ui'.filterCall.pc = "ok"

OkItems(call, i) ==
    IF i <= Len(call.jobs) /\ call.jobs[i].pc = "ok" THEN call.jobs[i].items
    ELSE <<>>

\* handleSearchAll goes on after its await in this step.
FanOutSettles == Searching /\ ui'.searchCall = NoCall

\* The i-th job search leaves its sources in this step.
SourcesSettle(i) ==
    /\ i \in CallIndexes
    /\ ui.searchCall.jobs[i].pc = "sources"
    /\ ui'.searchCall.kind = "search"
    /\ ui'.searchCall.jobs[i].pc # "sources"

C24_Step ==
    /\ FanOutSettles =>
           /\ ui'.jobResults = OkItems(ui.searchCall, 1) \o OkItems(ui.searchCall, 2)
           /\ ~ui'.searchBusy
           /\ "errorSearchFailed" \notin ui'.searchError
           /\ "errorJobSearchFailedFor" \in ui'.searchError
                  <=> \E i \in CallIndexes : ui.searchCall.jobs[i].pc = "failed"
           /\ "errorSearchFailedFor" \in ui'.searchError
                  <=> \E i \in CallIndexes : ui.searchCall.pages[i].pc = "rejected"
    /\ \A i \in 1..2 :
           SourcesSettle(i) =>
               /\ ui'.searchCall.jobs[i].pc = "ok"
               /\ ui'.searchCall.jobs[i].failures \in 0..Len(Sources)
               /\ ui'.searchCall.jobs[i].failures < Len(Sources)
                      => ui'.searchCall.jobs[i].items # <<>>

LooksUp(i) ==
    /\ i \in CallIndexes
    /\ ui.searchCall.jobs[i].pc = "sent"
    /\ ui'.searchCall.kind = "search"
    /\ ui'.searchCall.jobs[i].pc \in {"ok", "sources"}

C25_Step ==
    \A i \in 1..2 :
        /\ LooksUp(i) =>
               LET key == ToLower(Trim(ui.searchCall.jobs[i].query))
                   cached == { e \in jobs.cache : e.key = key /\ e.age < CacheTtl }
                   answer == ui'.searchCall.jobs[i]
               IN  IF cached # {}
                   THEN /\ answer.pc = "ok"
                        /\ answer.cacheHit
                        /\ answer.called = 0
                        /\ \A e \in cached : answer.items = e.items
                        /\ jobs' = jobs
                   ELSE /\ answer.pc = "sources"
                        /\ ~answer.cacheHit
                        /\ answer.called = Len(Sources)
        /\ SourcesSettle(i) =>
               \E e \in jobs'.cache :
                   /\ e.key = ToLower(Trim(ui.searchCall.jobs[i].query))
                   /\ e.items = ui'.searchCall.jobs[i].items
                   /\ e.age = 0

====
